---- MODULE Spec2Model ----
(***************************************************************************)
(* A model of libskylark's sketching core: the random stream context       *)
(* (sketch/context.hpp), the Woodruff-Zhang descriptor (WZT_data), the      *)
(* least-squares entry points (nla/least_squares.hpp) and the layout        *)
(* dispatch of the dense and kernel (RFT) transforms.                       *)
(***************************************************************************)
EXTENDS Integers, Sequences, FiniteSets, TLC

VARIABLES
    ctx,      \* context id -> [seed, counter, rank]          (context_t)
    log,      \* context id -> sequence of [base, size]: the allocations made
    last,     \* context id -> outcome of the context's last allocation call
    script,   \* the allocation sizes every rank's program requests, in order
    pc,       \* context id -> number of script steps done, or Failed
    data,     \* descriptor slot -> a WZT_data_t object, or NoData
    sk,       \* the parameter tree (boost::property_tree::ptree) last written
    wlast,    \* what the last WZT_data_t construction attempt did
    X,        \* the caller's solution matrix of the least-squares calls
    ls,       \* what the last least-squares call did
    thrown,   \* entry point -> the exception its last rejected call threw
    call,     \* the arguments of the apply all ranks are calling
    proc,     \* rank -> where the rank is in its apply, and its matrices
    rft,      \* the kernel (RFT) transform's descriptor, or NoRFT
    feat      \* the kernel transform's apply: its arguments, each rank's block

ctxVars == <<ctx, log, last>>
syncVars == <<script, pc>>
wztVars == <<data, sk, wlast>>
lsVars == <<X, ls, thrown>>
applyVars == <<call, proc>>
rftVars == <<rft, feat>>
vars == <<ctx, log, last, script, pc, data, sk, wlast, X, ls, thrown, call, proc,
          rft, feat>>

(***************************************************************************)
(* Bounds of the model.                                                    *)
(***************************************************************************)
MaxCounter == 4      \* allocations stop once the counter would pass this
MaxAllocs == 3       \* longest allocation history of one context

\* Two context objects, one per process: the claims about contexts are
\* pairwise (two allocations, two contexts, two ranks).
CtxIds == {1, 2}
Seeds == {1, 2}
\* The sizes of one allocation request; 0 is an empty array.
Sizes == {0, 1, 2}

RankOf(c) == c - 1

Failed == -1

(***************************************************************************)
(* utility/randgen.hpp is not among the sources.  Its contract is stated   *)
(* in context.hpp's comment (lines 57-69) and in the specification: sample *)
(* i of an array is the distribution applied to a counter-based generator  *)
(* whose key is the seed and whose counter is base + i.                    *)
(***************************************************************************)
\* Stand-in for Threefry4x64 keyed by the seed at counter value off.
Mix(seed, off) == (seed * 37 + off * 11 + 5) % 16

UniformInt(hi) == [name |-> "uniform_int", hi |-> hi]
Exponential == [name |-> "exponential", hi |-> 0]
Rademacher == [name |-> "rademacher", hi |-> 0]
RawBits == [name |-> "raw", hi |-> 0]
Dists == {Exponential, Rademacher}

\* One variate of distribution dist drawn from the generator at (seed, off).
Sample(seed, off, dist) ==
    CASE dist.name = "uniform_int" -> Mix(seed, off) % (dist.hi + 1)
      [] dist.name = "exponential" -> 1 + (Mix(seed, off) % 3)
      [] dist.name = "rademacher"  -> IF Mix(seed, off) % 2 = 0 THEN 1 ELSE -1
      [] OTHER                     -> Mix(seed, off)

\* random_samples_array_t::operator[] for every index: the array's values.
ArrayValues(arr) ==
    [i \in 1..arr.size |-> Sample(arr.seed, arr.base + (i - 1), arr.dist)]

(***************************************************************************)
(* context_t                                                               *)
(***************************************************************************)
ContextInitRankOffset(seed, rank) ==
    [seed |-> seed, counter |-> rank, rank |-> rank]

\* context_t::context_t: _counter(0), _seed(seed), rank(comm.rank()).
ContextInit(seed, rank) == [seed |-> seed, counter |-> 0, rank |-> rank]

NewSamplesArrayRankKeyed(k, size, dist) ==
    [base |-> k.counter, size |-> size, seed |-> k.seed + k.rank, dist |-> dist]

\* random_samples_array(_counter, size, _seed, distribution), on context k
NewSamplesArray(k, size, dist) ==
    [base |-> k.counter, size |-> size, seed |-> k.seed, dist |-> dist]

\* random_array(_counter, size, _seed)
NewRandomArray(k, size) ==
    [base |-> k.counter, size |-> size, seed |-> k.seed, dist |-> RawBits]

AdvanceCounterShort(k, size) ==
    IF size > 1 THEN k.counter + size - 1 ELSE k.counter + size

\* _counter = _counter + size
AdvanceCounter(k, size) == k.counter + size

NoAlloc ==
    [base |-> 0, size |-> 0, dist |-> RawBits, samples |-> <<>>, err |-> "none"]

\* A context with the history the model keeps of it.
CtxState(c) == [k |-> ctx[c], log |-> log[c], last |-> last[c]]

Store(c, st) ==
    /\ ctx' = [ctx EXCEPT ![c] = st.k]
    /\ log' = [log EXCEPT ![c] = st.log]
    /\ last' = [last EXCEPT ![c] = st.last]

\* The bound of the model: histories of at most MaxAllocs allocations that
\* stay within MaxCounter samples.
InBounds(c, size) ==
    /\ Len(log[c]) < MaxAllocs
    /\ ctx[c].counter + size <= MaxCounter

\* The successful path of an allocation: the array is built at the current
\* counter, the counter is advanced, the array is returned.
Allocated(st, arr, size) ==
    [k |-> [st.k EXCEPT !.counter = AdvanceCounter(st.k, size)],
     log |-> Append(st.log, [base |-> arr.base, size |-> arr.size]),
     last |-> [base |-> arr.base, size |-> arr.size, dist |-> arr.dist,
               samples |-> ArrayValues(arr), err |-> "none"]]

\* The array's constructor threw std::runtime_error: the catch clause
\* rethrows it as skylark_exception; the counter was not yet advanced.
AllocThrew(st) ==
    [st EXCEPT !.last = [NoAlloc EXCEPT !.err = "skylark_exception"]]

\* context_t::allocate_random_samples_array(size, distribution)
AllocateRandomSamplesArray(c, size, dist) ==
    /\ InBounds(c, size)
    /\ \/ Store(c, Allocated(CtxState(c), NewSamplesArray(ctx[c], size, dist), size))
       \/ Store(c, AllocThrew(CtxState(c)))

\* context_t::allocate_random_array(size)
AllocateRandomArray(c, size) ==
    /\ InBounds(c, size)
    /\ \/ Store(c, Allocated(CtxState(c), NewRandomArray(ctx[c], size), size))
       \/ Store(c, AllocThrew(CtxState(c)))

\* context_t::random_int(): allocate_random_array(1), then element 0.
RandomInt(c) == AllocateRandomArray(c, 1)

(***************************************************************************)
(* The parts of the state a specification does not use stay as built.      *)
(***************************************************************************)
NoData == [N |-> 0, S |-> 0, p |-> 0, name |-> "none", row_idx |-> <<>>,
           row_value |-> <<>>, seed |-> 0, at |-> 0, used |-> 0,
           ctor |-> "none", src |-> 0, on |-> 0]

\* What a slot holds after a constructor that threw: no object.
Threw == [NoData EXCEPT !.ctor = "threw"]

NoAttempt == [slot |-> 0, ctor |-> "none", p |-> 0, N |-> 0,
              before |-> 0, after |-> 0, err |-> "none"]

EmptyTree == [src |-> 0, fields |-> {}]

Slots == {1, 2}

IdleSync ==
    /\ script = <<>>
    /\ pc = [c \in CtxIds |-> 0]

IdleWZT ==
    /\ data = [d \in Slots |-> NoData]
    /\ sk = EmptyTree
    /\ wlast = NoAttempt

Entries == {"ApproximateLeastSquares", "ApproximateLeastSquaresDist",
            "FastLeastSquares"}

\* The solution matrix as the caller passed it, written by no solver.
NoX == [by |-> "none", handed |-> 0, m |-> 0, n |-> 0]

NoCall == [entry |-> "none", orientation |-> "none", arg |-> 0,
           H |-> 0, W |-> 0, err |-> "none", msg |-> "none",
           problem |-> "none", solver |-> "none", handed |-> 0,
           readA |-> FALSE, readB |-> FALSE, before |-> 0, after |-> 0,
           Xbefore |-> NoX]

IdleLS ==
    /\ X = NoX
    /\ ls = NoCall
    /\ thrown = [e \in Entries |-> "none"]

\* The processes of the job, by their rank in the world communicator.
Ranks == {0, 1}

NoMat == [h |-> 0, w |-> 0, val |-> "none"]

NoApply == [kind |-> "none", coldist |-> "none", tag |-> "none", N |-> 0,
            S |-> 0, Ah |-> 0, Aw |-> 0, root |-> 0, out0 |-> NoMat]

IdleProc == [pc |-> "idle", out |-> NoMat, cd |-> NoMat, cc |-> NoMat,
             err |-> "none", trace |-> <<>>]

IdleApply ==
    /\ call = NoApply
    /\ proc = [r \in Ranks |-> IdleProc]

\* No kernel transform built, no apply of one called.
NoRFT == [N |-> 0, S |-> 0, scale |-> 0, val_scale |-> 0, shifts |-> <<>>,
          underlying |-> <<>>, at |-> 0, used |-> 0]

NoFeat == [kind |-> "none", tag |-> "none", free |-> 0, grid |-> 0,
           build |-> "none", before |-> 0, built |-> NoRFT,
           major |-> [t \in {"rowwise", "columnwise"} |-> "none"],
           strayed |-> FALSE, blocks |-> <<>>]

IdleRFT ==
    /\ rft = NoRFT
    /\ feat = NoFeat

(***************************************************************************)
(* Any sequence of allocations on two contexts, each with a seed of its    *)
(* own.                                                                    *)
(***************************************************************************)
InitCtx ==
    /\ ctx \in {[c \in CtxIds |-> ContextInit(f[c], RankOf(c))] :
                    f \in [CtxIds -> Seeds]}
    /\ log = [c \in CtxIds |-> <<>>]
    /\ last = [c \in CtxIds |-> NoAlloc]
    /\ IdleSync
    /\ IdleWZT
    /\ IdleLS
    /\ IdleApply
    /\ IdleRFT

CallSamples(c) ==
    /\ \E size \in Sizes, dist \in Dists : AllocateRandomSamplesArray(c, size, dist)
    /\ UNCHANGED <<syncVars, wztVars, lsVars, applyVars, rftVars>>

CallArray(c) ==
    /\ \E size \in Sizes : AllocateRandomArray(c, size)
    /\ UNCHANGED <<syncVars, wztVars, lsVars, applyVars, rftVars>>

CallRandomInt(c) ==
    /\ RandomInt(c)
    /\ UNCHANGED <<syncVars, wztVars, lsVars, applyVars, rftVars>>

NextCtx ==
    \E c \in CtxIds :
        \/ CallSamples(c)
        \/ CallArray(c)
        \/ CallRandomInt(c)

SpecCtx == InitCtx /\ [][NextCtx]_vars

(***************************************************************************)
(* Ranks of one job: every rank builds its context with the same seed and  *)
(* runs the same program, a sequence of allocation sizes; the ranks step   *)
(* independently and exchange nothing.  A rank whose allocation throws     *)
(* leaves the program.                                                     *)
(***************************************************************************)
RECURSIVE SumSeq(_)
SumSeq(s) == IF s = <<>> THEN 0 ELSE Head(s) + SumSeq(Tail(s))

Scripts ==
    {s \in UNION {[1..n -> Sizes] : n \in 0..MaxAllocs} : SumSeq(s) <= MaxCounter}

InitSync ==
    /\ \E seed \in Seeds : ctx = [c \in CtxIds |-> ContextInit(seed, RankOf(c))]
    /\ log = [c \in CtxIds |-> <<>>]
    /\ last = [c \in CtxIds |-> NoAlloc]
    /\ script \in Scripts
    /\ pc = [c \in CtxIds |-> 0]
    /\ IdleWZT
    /\ IdleLS
    /\ IdleApply
    /\ IdleRFT

\* A step of the program completed if the allocation returned an array.
Advance(c) ==
    pc' = [pc EXCEPT ![c] = IF last'[c].err = "none" THEN @ + 1 ELSE Failed]

RankSamples(c) ==
    /\ pc[c] # Failed /\ pc[c] < Len(script)
    /\ \E dist \in Dists : AllocateRandomSamplesArray(c, script[pc[c] + 1], dist)
    /\ Advance(c)
    /\ UNCHANGED <<script, wztVars, lsVars, applyVars, rftVars>>

RankArray(c) ==
    /\ pc[c] # Failed /\ pc[c] < Len(script)
    /\ AllocateRandomArray(c, script[pc[c] + 1])
    /\ Advance(c)
    /\ UNCHANGED <<script, wztVars, lsVars, applyVars, rftVars>>

NextSync == \E c \in CtxIds : RankSamples(c) \/ RankArray(c)

SpecSync == InitSync /\ [][NextSync]_vars

(***************************************************************************)
(* boost::property_tree::ptree: a tree of named fields whose values are    *)
(* text.  put formats a number into text, get parses it back.              *)
(***************************************************************************)
DigitChars == <<"0", "1", "2", "3", "4", "5", "6", "7", "8", "9">>

RECURSIVE IntToText(_)
IntToText(n) ==
    IF n < 10 THEN <<DigitChars[n + 1]>>
    ELSE IntToText(n \div 10) \o <<DigitChars[(n % 10) + 1]>>

DigitOf(ch) == CHOOSE v \in 0..9 : DigitChars[v + 1] = ch

RECURSIVE TextToInt(_)
TextToInt(t) ==
    IF t = <<>> THEN 0
    ELSE 10 * TextToInt(SubSeq(t, 1, Len(t) - 1)) + DigitOf(t[Len(t)])

\* A double is kept as a count of halves (2 is 1.0, 3 is 1.5, 4 is 2.0): the
\* stream writes 1.0 as "1" and 1.5 as "1.5".
DoubleToText(p) ==
    IF p % 2 = 0 THEN IntToText(p \div 2)
    ELSE IntToText(p \div 2) \o <<".", "5">>

\* The stream writes the int conversion of the double: the fraction is lost.
DoubleToTextAsInt(p) == IntToText(p \div 2)

TextToDouble(t) ==
    IF \E i \in 1..Len(t) : t[i] = "."
    THEN LET dot == CHOOSE i \in 1..Len(t) : t[i] = "."
         IN  2 * TextToInt(SubSeq(t, 1, dot - 1))
             + (IF SubSeq(t, dot + 1, Len(t)) = <<"5">> THEN 1 ELSE 0)
    ELSE 2 * TextToInt(t)

\* ptree::put(key, text): the field is added, or its value replaced.
Put(fields, key, text) ==
    {f \in fields : f[1] # key} \cup {<<key, text>>}

HasKey(fields, key) == \E f \in fields : f[1] = key

\* ptree::get(key) of a field that is there.
Get(fields, key) == (CHOOSE f \in fields : f[1] = key)[2]

(***************************************************************************)
(* hash_transform_data_t and transform_data_t are not among the sources:   *)
(* the base constructor draws, per input coordinate, a target index        *)
(* (uniform over 0..S-1) and a magnitude (exponential for WZT), as         *)
(* WZT_data_t::_populate's use of Base::row_value shows and the            *)
(* specification (4.2, hash family) states.                                *)
(***************************************************************************)
Ok(st) == st.last.err = "none"

\* context_t::generate_random_samples_array(size, distribution): allocate
\* the array and read out its size values.
Generate(st, size, dist, throws) ==
    IF throws THEN AllocThrew(st)
    ELSE Allocated(st, NewSamplesArray(st.k, size, dist), size)

\* hash_transform_data_t(N, S, context, name): row_idx, then row_value.
HashBase(st, N, S, failAt) ==
    LET s1 == Generate(st, N, UniformInt(S - 1), failAt = 1)
        s2 == IF Ok(s1) THEN Generate(s1, N, Exponential, failAt = 2) ELSE s1
    IN  [st |-> s2, ok |-> Ok(s1) /\ Ok(s2),
         row_idx |-> s1.last.samples, row_value |-> s2.last.samples]

\* operator<<(ptree&, const transform_data_t&): the base fields.
TransformDataToTree(fields, d) ==
    Put(Put(Put(fields, "sketch.type", d.name),
            "sketch.N", IntToText(d.N)),
        "sketch.S", IntToText(d.S))

(***************************************************************************)
(* WZT_data_t                                                              *)
(***************************************************************************)
\* The exponent p in halves: 0.5, 1.5, 2 and 3.
PVals == {1, 3, 4, 6}
Ns == {1, 2}
Ss == {2}

\* if (p < 1 || 2 < p)
PUnsupported(p) == p < 2 \/ 4 < p

\* pmvals[i] * pow(1.0 / row_value[i], 1.0 / _P), kept as the term it is.
WZValue(sign, e, p) == [sign |-> sign, inv |-> e, root |-> p]

PopulateOverMagnitudes(st, N, row_value, p, failAt) ==
    LET signs == ArrayValues([base |-> st.k.counter - N, size |-> N,
                              seed |-> st.k.seed, dist |-> Rademacher])
    IN  [st |-> st, ok |-> TRUE,
         row_value |-> [i \in 1..N |-> WZValue(signs[i], row_value[i], p)]]

\* WZT_data_t::_populate: N Rademacher signs from the context, then every
\* row_value[i] rewritten.
Populate(st, N, row_value, p, failAt) ==
    LET s3 == Generate(st, N, Rademacher, failAt = 3)
    IN  [st |-> s3, ok |-> Ok(s3),
         row_value |-> IF Ok(s3)
                       THEN [i \in 1..N |->
                               WZValue(s3.last.samples[i], row_value[i], p)]
                       ELSE row_value]

Built(d, c, ctor, N, S, p, b, pop) ==
    /\ Store(c, pop.st)
    /\ data' = [data EXCEPT ![d] =
                  [N |-> N, S |-> S, p |-> p, name |-> "WZT",
                   row_idx |-> b.row_idx, row_value |-> pop.row_value,
                   seed |-> ctx[c].seed, at |-> ctx[c].counter,
                   used |-> pop.st.k.counter - ctx[c].counter,
                   ctor |-> ctor, src |-> IF ctor = "tree" THEN sk.src ELSE 0,
                   on |-> c]]
    /\ wlast' = [slot |-> d, ctor |-> ctor, p |-> p, N |-> N,
                 before |-> ctx[c].counter, after |-> pop.st.k.counter,
                 err |-> "none"]

\* The constructor threw: no object exists, the context keeps what the
\* constructor had drawn from it.
NotBuilt(d, c, ctor, N, p, st, err) ==
    /\ Store(c, st)
    /\ wlast' = [slot |-> d, ctor |-> ctor, p |-> p, N |-> N,
                 before |-> ctx[c].counter, after |-> st.k.counter,
                 err |-> err]
    /\ data' = [data EXCEPT ![d] = Threw]

\* The body of both constructors once the base class is built.
Body(d, c, ctor, N, S, p, b, checked, failAt) ==
    IF ~b.ok THEN NotBuilt(d, c, ctor, N, p, b.st, "skylark_exception")
    ELSE IF checked /\ PUnsupported(p)
    THEN NotBuilt(d, c, ctor, N, p, b.st, "sketch_exception")
    ELSE LET pop == Populate(b.st, N, b.row_value, p, failAt)
         IN  IF pop.ok THEN Built(d, c, ctor, N, S, p, b, pop)
             ELSE NotBuilt(d, c, ctor, N, p, pop.st, "skylark_exception")

\* The model constructs one descriptor per slot: the first on context 1,
\* the second on either context.
CanBuild(d, c) == data[d] = NoData /\ (d = 1 => c = 1)

\* WZT_data_t(int N, int S, double p, context_t& context):
\* Base(N, S, context, "WZT"), _P(p), then the range check, then _populate.
WZTConstruct(d, c, N, S, p, failAt) ==
    /\ CanBuild(d, c)
    /\ Body(d, c, "params", N, S, p, HashBase(CtxState(c), N, S, failAt),
            TRUE, failAt)
    /\ UNCHANGED <<sk, syncVars, lsVars, applyVars, rftVars>>

\* WZT_data_t(const ptree& sketch, context_t& context):
\* Base(sketch, context), _P(sketch.get<double>("sketch.p")), _populate.
WZTFromTree(d, c, failAt) ==
    /\ CanBuild(d, c) /\ d # 1
    /\ HasKey(sk.fields, "sketch.N") /\ HasKey(sk.fields, "sketch.S")
    /\ HasKey(sk.fields, "sketch.p")
    /\ LET N == TextToInt(Get(sk.fields, "sketch.N"))
           S == TextToInt(Get(sk.fields, "sketch.S"))
           p == TextToDouble(Get(sk.fields, "sketch.p"))
       IN  Body(d, c, "tree", N, S, p, HashBase(CtxState(c), N, S, failAt),
                FALSE, failAt)
    /\ UNCHANGED <<sk, syncVars, lsVars, applyVars, rftVars>>

WZTToTreeAsInt(fields, d) ==
    Put(TransformDataToTree(fields, d), "sketch.p", DoubleToTextAsInt(d.p))

\* operator<<(ptree& sk, const WZT_data_t& data)
WZTToTree(fields, d) ==
    Put(TransformDataToTree(fields, d), "sketch.p", DoubleToText(d.p))

Serialize(d) ==
    /\ data[d].ctor \in {"params", "tree"}
    /\ sk' = [src |-> d, fields |-> WZTToTree(sk.fields, data[d])]
    /\ UNCHANGED <<ctxVars, data, wlast, syncVars, lsVars, applyVars, rftVars>>

\* Moving a fresh context to an offset: one allocation before any descriptor.
Replay(c) ==
    /\ log[c] = <<>>
    /\ \E size \in Sizes : AllocateRandomArray(c, size)
    /\ UNCHANGED <<wztVars, syncVars, lsVars, applyVars, rftVars>>

InitWZT ==
    /\ ctx \in {[c \in CtxIds |-> ContextInit(f[c], RankOf(c))] :
                    f \in {g \in [CtxIds -> Seeds] : g[1] = 1}}
    /\ log = [c \in CtxIds |-> <<>>]
    /\ last = [c \in CtxIds |-> NoAlloc]
    /\ IdleSync
    /\ IdleWZT
    /\ IdleLS
    /\ IdleApply
    /\ IdleRFT

NextWZT ==
    \/ \E c \in CtxIds : Replay(c)
    \/ \E d \in Slots, c \in CtxIds, N \in Ns, S \in Ss, p \in PVals, failAt \in 0..3 :
          WZTConstruct(d, c, N, S, p, failAt)
    \/ \E d \in Slots, c \in CtxIds, failAt \in 0..3 : WZTFromTree(d, c, failAt)
    \/ \E d \in Slots : Serialize(d)

\* Descriptors built from parameters and rebuilt from a written tree, on two
\* contexts that were first moved to some offset.
SpecWZT == InitWZT /\ [][NextWZT]_vars

(***************************************************************************)
(* nla/least_squares.hpp.  The regression problem and the two solvers      *)
(* (algorithms/regression) are not among the sources: the sketched solver  *)
(* builds its transform of sketch_size x Height(A) from the context and    *)
(* writes X, the accelerated solver sketches A to a preconditioner and     *)
(* writes X (specification 4.4, 4.5).                                      *)
(***************************************************************************)
Orientations == {"NORMAL", "TRANSPOSE", "ADJOINT"}
Heights == {2, 3}
Widths == {1, 2}
\* sketch_size as the caller passes it; -1 is the default argument.
SketchArgs == {-2, -1, 0, 3}

RejectedNever(orientation) == FALSE

\* if (orientation != El::NORMAL), ApproximateLeastSquares on El::Matrix
RejectedLocal(orientation) == orientation # "NORMAL"

\* if (orientation != El::NORMAL), ApproximateLeastSquares on El::DistMatrix
RejectedDist(orientation) == orientation # "NORMAL"

\* if (orientation != El::NORMAL), FastLeastSquares
RejectedFast(orientation) == orientation # "NORMAL"

SketchSizeOfHeight(arg, H, W) == IF arg = -1 THEN 4 * H ELSE arg

\* if (sketch_size == -1) sketch_size = 4 * base::Width(A);   (El::Matrix)
SketchSizeLocal(arg, H, W) == IF arg = -1 THEN 4 * W ELSE arg

\* if (sketch_size == -1) sketch_size = 4 * base::Width(A);   (El::DistMatrix)
SketchSizeDist(arg, H, W) == IF arg = -1 THEN 4 * W ELSE arg

\* regression_problem_t problem(base::Height(A), base::Width(A), A)
Problem(H, W) == [m |-> H, n |-> W, input_matrix |-> "A"]

\* sketched_regression_solver_t(problem, sketch_size, context): the samples
\* of a transform of sketch_size x Height(A).
SketchedSolver(st, problem, size) ==
    LET s1 == Generate(st, problem.m, Rademacher, FALSE)
    IN  IF size > 0 THEN Generate(s1, size, UniformInt(problem.m - 1), FALSE)
        ELSE s1

\* accelerated_regression_solver_t(problem, context): the samples of the
\* transform that sketches A to the preconditioner.
AcceleratedSolver(st, problem) ==
    Generate(st, problem.m, Rademacher, FALSE)

\* SKYLARK_THROW_EXCEPTION(kind << error_msg(msg)) as the first statement.
Reject(entry, orientation, arg, kind, msg) ==
    /\ ls' = [NoCall EXCEPT !.entry = entry, !.orientation = orientation,
                            !.arg = arg, !.err = kind, !.msg = msg,
                            !.before = ctx[1].counter,
                            !.after = ctx[1].counter, !.Xbefore = X]
    /\ thrown' = [thrown EXCEPT ![entry] = kind]
    /\ UNCHANGED <<ctxVars, X>>

\* The problem is built, the solver is built from the context, solve(B, X).
Solve(entry, orientation, arg, H, W, handed, st) ==
    /\ Store(1, st)
    /\ X' = [by |-> entry, handed |-> handed, m |-> H, n |-> W]
    /\ ls' = [entry |-> entry, orientation |-> orientation, arg |-> arg,
              H |-> H, W |-> W, err |-> "none", msg |-> "none",
              problem |-> Problem(H, W), solver |-> entry, handed |-> handed,
              readA |-> TRUE, readB |-> TRUE, before |-> ctx[1].counter,
              after |-> st.k.counter, Xbefore |-> X]
    /\ UNCHANGED thrown

\* The model makes least-squares calls while the counter is within bounds.
CanSolve == ctx[1].counter <= MaxCounter

\* ApproximateLeastSquares(orientation, El::Matrix A, B, X, context, sketch_size)
ApproximateLeastSquares(orientation, H, W, arg) ==
    /\ CanSolve
    /\ IF RejectedLocal(orientation)
       THEN Reject("ApproximateLeastSquares", orientation, arg, "nla_exception",
                   "Only NORMAL orientation is supported for ApproximateLeastSquares")
       ELSE LET size == SketchSizeLocal(arg, H, W)
            IN  Solve("ApproximateLeastSquares", orientation, arg, H, W, size,
                      SketchedSolver(CtxState(1), Problem(H, W), size))
    /\ UNCHANGED <<syncVars, wztVars, applyVars, rftVars>>

\* ApproximateLeastSquares(orientation, El::DistMatrix A, B, X, context, sketch_size)
ApproximateLeastSquaresDist(orientation, H, W, arg) ==
    /\ CanSolve
    /\ IF RejectedDist(orientation)
       THEN Reject("ApproximateLeastSquaresDist", orientation, arg, "nla_exception",
                   "Only NORMAL orientation is supported for ApproximateLeastSquares")
       ELSE LET size == SketchSizeDist(arg, H, W)
            IN  Solve("ApproximateLeastSquaresDist", orientation, arg, H, W, size,
                      SketchedSolver(CtxState(1), Problem(H, W), size))
    /\ UNCHANGED <<syncVars, wztVars, applyVars, rftVars>>

\* FastLeastSquares(orientation, A, B, X, context)
FastLeastSquares(orientation, H, W) ==
    /\ CanSolve
    /\ IF RejectedFast(orientation)
       THEN Reject("FastLeastSquares", orientation, 0, "sketch_exception",
                   "Only NORMAL orientation is supported for FastLeastSquares")
       ELSE Solve("FastLeastSquares", orientation, 0, H, W, 0,
                  AcceleratedSolver(CtxState(1), Problem(H, W)))
    /\ UNCHANGED <<syncVars, wztVars, applyVars, rftVars>>

InitLS ==
    /\ \E seed \in Seeds : ctx = [c \in CtxIds |-> ContextInit(seed, RankOf(c))]
    /\ log = [c \in CtxIds |-> <<>>]
    /\ last = [c \in CtxIds |-> NoAlloc]
    /\ IdleSync
    /\ IdleWZT
    /\ IdleLS
    /\ IdleApply
    /\ IdleRFT

NextLS ==
    \E orientation \in Orientations, H \in Heights, W \in Widths :
        \/ \E arg \in SketchArgs : ApproximateLeastSquares(orientation, H, W, arg)
        \/ \E arg \in SketchArgs : ApproximateLeastSquaresDist(orientation, H, W, arg)
        \/ FastLeastSquares(orientation, H, W)

\* Any sequence of calls of the three entry points on one context.
SpecLS == InitLS /\ [][NextLS]_vars

(***************************************************************************)
(* apply of the transforms whose input is an Elemental [ColDist, *]        *)
(* matrix: dense_transform_t with a local output and RFT_t with a          *)
(* [ColDist, *] output.  All ranks call apply with the same arguments and  *)
(* step through it on their own; a redistribution is a collective that a   *)
(* rank leaves once every rank has entered it.  Elemental is an external   *)
(* library: a [VC/VR, *] matrix of h rows keeps row i on rank i mod p, a    *)
(* [CIRC, CIRC] matrix keeps everything on the root of its grid.           *)
(***************************************************************************)
ColDists == {"MC", "MD", "MR", "STAR", "VC", "VR"}
Tags == {"rowwise", "columnwise"}

\* The descriptor's N and the sketch sizes S and A's free dimension.
DescN == {2}
DescS == {1, 2}
FreeDims == {2, 3}
\* What the caller passes as output: a fresh matrix or one of some size.
CallerOutputs == {[h |-> 0, w |-> 0, val |-> "caller"],
                  [h |-> 1, w |-> 1, val |-> "caller"]}

\* The global height and width of the sketch of the call.
SketchH(cl) == IF cl.tag = "rowwise" THEN cl.Ah ELSE cl.S
SketchW(cl) == IF cl.tag = "rowwise" THEN cl.S ELSE cl.Aw

\* Rows of an h-row [VC/VR, *] matrix that rank r keeps.
LocalRows(h, r) == Cardinality({i \in 0..(h - 1) : i % Cardinality(Ranks) = r})

SupportedAll(coldist) == TRUE

\* switch(ColDist) { case VR: case VC: ... default: throw }  (dense_transform_t)
SupportedDense(coldist) == coldist \in {"VR", "VC"}

\* switch(ColDist) { case VR: case VC: ... default: throw }  (RFT_t)
SupportedRFT(coldist) == coldist \in {"VR", "VC"}

\* All ranks are outside apply: they call it with common arguments.
StartApply(kind, coldist, tag, N, S, free, root, out0) ==
    /\ \A r \in Ranks : proc[r].pc \in {"idle", "done", "threw"}
    /\ call' = [kind |-> kind, coldist |-> coldist, tag |-> tag, N |-> N,
                S |-> S,
                Ah |-> IF tag = "rowwise" THEN free ELSE N,
                Aw |-> IF tag = "rowwise" THEN N ELSE free,
                root |-> root, out0 |-> out0]
    /\ proc' = [r \in Ranks |-> [IdleProc EXCEPT !.pc = "enter", !.out = out0]]
    /\ UNCHANGED <<ctxVars, syncVars, wztVars, lsVars, rftVars>>

Step(r, next) == proc' = [proc EXCEPT ![r] = next]

Did(r, what) == Append(proc[r].trace, what)

Frame == UNCHANGED <<call, ctxVars, syncVars, wztVars, lsVars, rftVars>>

\* dense_transform_t::apply: the switch on ColDist.
DenseDispatch(r) ==
    /\ call.kind = "dense" /\ proc[r].pc = "enter"
    /\ IF SupportedDense(call.coldist)
       THEN Step(r, [proc[r] EXCEPT !.pc = "zeros_cd"])
       ELSE Step(r, [proc[r] EXCEPT !.pc = "threw",
                                    !.err = "unsupported_matrix_distribution"])
    /\ Frame

\* elem::Zeros(sketch_of_A_CD_STAR, ...)
ZerosCD(r) ==
    /\ proc[r].pc = "zeros_cd"
    /\ Step(r, [proc[r] EXCEPT !.pc = "zeros_cc", !.trace = Did(r, "Zeros_CD_STAR"),
                  !.cd = [h |-> LocalRows(SketchH(call), r), w |-> SketchW(call),
                          val |-> "zeros"]])
    /\ Frame

\* The local matrix of a [CIRC, CIRC] matrix: all of it on the root.
CircLocal(r, val) ==
    IF r = call.root THEN [h |-> SketchH(call), w |-> SketchW(call), val |-> val]
    ELSE [h |-> 0, w |-> 0, val |-> "empty"]

\* elem::Zeros(sketch_of_A_CIRC_CIRC, ...)
ZerosCC(r) ==
    /\ proc[r].pc = "zeros_cc"
    /\ Step(r, [proc[r] EXCEPT !.pc = "apply", !.trace = Did(r, "Zeros_CIRC_CIRC"),
                  !.cc = CircLocal(r, "zeros")])
    /\ Frame

\* transform.apply(A, sketch_of_A_CD_STAR, tag): the [ColDist, *] to
\* [ColDist, *] transform fills the intermediate.
NestedApply(r) ==
    /\ proc[r].pc = "apply"
    /\ Step(r, [proc[r] EXCEPT !.pc = "redist", !.trace = Did(r, "apply_CD_STAR"),
                  !.cd.val = "sketch"])
    /\ Frame

\* The catch clauses of apply: Elemental's std::logic_error and
\* boost::mpi::exception leave as elemental_exception and mpi_exception.
ApplyThrows(r) ==
    /\ proc[r].pc \in {"apply", "rft_underlying"}
    /\ \E e \in {"elemental_exception", "mpi_exception"} :
          Step(r, [proc[r] EXCEPT !.pc = "threw", !.err = e])
    /\ Frame

JoinsRedistributionOnRankZero(r) == r = 0

\* The assignment stands before `if (rank == 0)`: every rank executes it.
JoinsRedistribution(r) == TRUE

\* sketch_of_A_CIRC_CIRC = sketch_of_A_CD_STAR: every rank sends its rows,
\* the root holds the whole sketch.
Redistribute(r) ==
    /\ proc[r].pc = "redist"
    /\ IF JoinsRedistribution(r)
       THEN /\ \A q \in Ranks : proc[q].pc \in {"redist", "copy", "done"}
            /\ Step(r, [proc[r] EXCEPT !.pc = "copy",
                          !.trace = Did(r, "CIRC_CIRC_from_CD_STAR"),
                          !.cc = CircLocal(r, "sketch")])
       ELSE Step(r, [proc[r] EXCEPT !.pc = "copy"])
    /\ Frame

CopiesOnRankOne(r) == r = 1

CopiesOnEveryRank(r) == TRUE

\* if (rank == 0), rank being world.rank()
CopiesOn(r) == r = 0

\* sketch_of_A = sketch_of_A_CIRC_CIRC.Matrix() on world rank 0.
Copy(r) ==
    /\ proc[r].pc = "copy"
    /\ IF CopiesOn(r)
       THEN Step(r, [proc[r] EXCEPT !.pc = "done", !.out = proc[r].cc])
       ELSE Step(r, [proc[r] EXCEPT !.pc = "done"])
    /\ Frame

\* RFT_t::apply on [ColDist, *] input and output: the switch on ColDist.
RFTDispatch(r) ==
    /\ call.kind = "rft" /\ proc[r].pc = "enter"
    /\ IF SupportedRFT(call.coldist)
       THEN Step(r, [proc[r] EXCEPT !.pc = "rft_underlying"])
       ELSE Step(r, [proc[r] EXCEPT !.pc = "threw",
                                    !.err = "unsupported_matrix_distribution"])
    /\ Frame

\* underlying.apply(A, sketch_of_A, tag): the dense projection into the
\* rank's block of the output.
RFTUnderlying(r) ==
    /\ proc[r].pc = "rft_underlying"
    /\ Step(r, [proc[r] EXCEPT !.pc = "rft_loop", !.trace = Did(r, "underlying_apply"),
                  !.out = [h |-> LocalRows(SketchH(call), r), w |-> SketchW(call),
                           val |-> "projected"]])
    /\ Frame

\* The loop over the local block Al: every entry through scale * cos(...).
RFTLoop(r) ==
    /\ proc[r].pc = "rft_loop"
    /\ Step(r, [proc[r] EXCEPT !.pc = "done", !.trace = Did(r, "cos_loop"),
                  !.out.val = "features"])
    /\ Frame

InitApply ==
    /\ \E seed \in Seeds : ctx = [c \in CtxIds |-> ContextInit(seed, RankOf(c))]
    /\ log = [c \in CtxIds |-> <<>>]
    /\ last = [c \in CtxIds |-> NoAlloc]
    /\ IdleSync
    /\ IdleWZT
    /\ IdleLS
    /\ IdleApply
    /\ IdleRFT

NextApply ==
    \/ \E kind \in {"dense", "rft"}, coldist \in ColDists, tag \in Tags,
          N \in DescN, S \in DescS, free \in FreeDims, root \in Ranks,
          out0 \in CallerOutputs :
          StartApply(kind, coldist, tag, N, S, free, root, out0)
    \/ \E r \in Ranks :
          \/ DenseDispatch(r)
          \/ ZerosCD(r)
          \/ ZerosCC(r)
          \/ NestedApply(r)
          \/ ApplyThrows(r)
          \/ Redistribute(r)
          \/ Copy(r)
          \/ RFTDispatch(r)
          \/ RFTUnderlying(r)
          \/ RFTLoop(r)

\* Collective calls of apply, one after the other, by all ranks.
SpecApply == InitApply /\ [][NextApply]_vars

\* What rank r can do next inside apply.
RankStep(r) ==
    \/ DenseDispatch(r)
    \/ ZerosCD(r)
    \/ ZerosCC(r)
    \/ NestedApply(r)
    \/ ApplyThrows(r)
    \/ Redistribute(r)
    \/ Copy(r)
    \/ RFTDispatch(r)
    \/ RFTUnderlying(r)
    \/ RFTLoop(r)

\* Every rank is a running process: a rank that can take its next step
\* takes it.
SpecApplyLive == SpecApply /\ \A r \in Ranks : WF_vars(RankStep(r))

(***************************************************************************)
(* Claims about the context.                                               *)
(***************************************************************************)
Range(e) == e.base .. (e.base + e.size - 1)

\* The counter a context had reached after its first k allocations.
CounterAfter(c, k) == IF k = 0 THEN 0 ELSE log[c][k].base + log[c][k].size

\* C1: every allocation of size N made at counter c reserved exactly the
\* offsets [c, c+N) and left the counter at c+N (the first at 0, each later
\* one where the one before it ended, the counter where the last ended), and
\* the offset ranges of any two allocations of one context are disjoint.
C1_NoOverlap ==
    \A c \in CtxIds :
        /\ \A k \in 1..Len(log[c]) : log[c][k].base = CounterAfter(c, k - 1)
        /\ ctx[c].counter = CounterAfter(c, Len(log[c]))
        /\ \A i, j \in 1..Len(log[c]) :
              i # j => Range(log[c][i]) \cap Range(log[c][j]) = {}

\* Three allocations on one context, the first two non-empty, and a failed
\* call after them that left the counter alone.
C1_Witness ==
    \E c \in CtxIds :
        /\ Len(log[c]) = 3
        /\ log[c][1].size = 2 /\ log[c][2].size = 1 /\ log[c][3].size = 1
        /\ ctx[c].counter = 4

\* C2: two contexts with the same seed draw the same variate of a
\* distribution at the same absolute offset, whatever allocations led there:
\* element i of an allocation depends only on (seed, base + i), so two
\* allocations of the same size and distribution made at the same counter
\* value return the same sample sequence.
C2_Determinism ==
    \A c1, c2 \in CtxIds :
        (/\ ctx[c1].seed = ctx[c2].seed
         /\ last[c1].err = "none" /\ last[c2].err = "none"
         /\ last[c1].dist = last[c2].dist)
        => /\ \A i \in 1..last[c1].size, j \in 1..last[c2].size :
                 last[c1].base + i = last[c2].base + j
                 => last[c1].samples[i] = last[c2].samples[j]
           /\ (last[c1].base = last[c2].base /\ last[c1].size = last[c2].size)
              => last[c1].samples = last[c2].samples

\* Two contexts of one seed reached counter 2 by histories of different
\* shape (1 then 1, and 2 at once) and then each allocated 2 samples of the
\* same distribution there.
C2_Witness ==
    /\ ctx[1].seed = ctx[2].seed
    /\ Len(log[1]) = 3 /\ Len(log[2]) = 2
    /\ log[1][1].size = 1 /\ log[1][2].size = 1 /\ log[2][1].size = 2
    /\ last[1].err = "none" /\ last[2].err = "none"
    /\ last[1].dist = last[2].dist
    /\ last[1].base = 2 /\ last[2].base = 2
    /\ last[1].size = 2 /\ last[2].size = 2

\* C10: ranks that built their contexts with one seed and request the same
\* sizes in the same order hold, after their k-th allocation, the same
\* counter, and their k-th allocations cover the same offsets, however their
\* steps interleave.
C10_RanksInStep ==
    \A c1, c2 \in CtxIds :
        /\ \A k \in 1..Len(log[c1]) :
              k <= Len(log[c2])
              => /\ log[c1][k] = log[c2][k]
                 /\ CounterAfter(c1, k) = CounterAfter(c2, k)
        /\ Len(log[c1]) = Len(log[c2]) => ctx[c1].counter = ctx[c2].counter

\* Both ranks finished a program of three allocations, the first two
\* non-empty.
C10_Witness ==
    /\ Len(script) = 3 /\ script[1] = 2 /\ script[2] = 1
    /\ \A c \in CtxIds : pc[c] = 3 /\ Len(log[c]) = 3

(***************************************************************************)
(* Claims about the Woodruff-Zhang descriptor.                             *)
(***************************************************************************)
\* C3: WZT_data_t(N, S, p, context) with p < 1 or 2 < p fails, and when it
\* fails with the parameter-range error the context's counter is what it was
\* before the construction (no sample was drawn).
C3_RejectsBeforeSampling ==
    (wlast.ctor = "params" /\ PUnsupported(wlast.p))
    => /\ wlast.err # "none"
       /\ wlast.err = "sketch_exception" => wlast.after = wlast.before

\* C9: a descriptor rebuilt from the tree another descriptor was written to
\* has that descriptor's N, S and p and consumes as many samples as its
\* construction did; rebuilt on a context of the same seed standing at the
\* offset the original was built at, it has the same index and value
\* coefficients.
C9_RoundTrip ==
    \A d \in Slots :
        data[d].ctor = "tree"
        => LET o == data[data[d].src]
           IN  /\ data[d].N = o.N /\ data[d].S = o.S /\ data[d].p = o.p
               /\ data[d].used = o.used
               /\ (data[d].seed = o.seed /\ data[d].at = o.at)
                  => /\ data[d].row_idx = o.row_idx
                     /\ data[d].row_value = o.row_value

\* A descriptor with N = 2 and p = 1.5 built on context 1 at offset 2, and
\* its rebuild from the tree on context 2, of the same seed, moved to
\* offset 2 by one allocation.
C9_Witness ==
    /\ data[1].ctor = "params" /\ data[1].on = 1
    /\ data[1].N = 2 /\ data[1].p = 3 /\ data[1].at = 2
    /\ data[2].ctor = "tree" /\ data[2].on = 2 /\ data[2].src = 1
    /\ data[2].seed = data[1].seed /\ data[2].at = 2
    /\ data[2].used = 6

(***************************************************************************)
(* Claims about the least-squares entry points.                            *)
(***************************************************************************)
\* C4: a call of any of the three entry points with an orientation other
\* than NORMAL fails and does nothing else: no problem and no solver is
\* built, A and B are not read, X is as it was and the context's counter is
\* what it was before the call.
C4_RejectedCallDoesNothing ==
    ls.orientation \in Orientations \ {"NORMAL"}
    => /\ ls.err # "none"
       /\ ls.problem = "none" /\ ls.solver = "none"
       /\ ~ls.readA /\ ~ls.readB
       /\ X = ls.Xbefore
       /\ ls.after = ls.before /\ ctx[1].counter = ls.before

\* An ADJOINT call rejected after an earlier call had moved the counter and
\* written X.
C4_Witness ==
    /\ ls.orientation = "ADJOINT" /\ ls.err # "none"
    /\ ls.before > 0 /\ X # NoX

\* C5: the entry points report a rejected orientation with one error kind:
\* any two entry points that have rejected a call threw the same kind.
C5_SameErrorKind ==
    \A e1, e2 \in Entries :
        (thrown[e1] # "none" /\ thrown[e2] # "none") => thrown[e1] = thrown[e2]

\* C6: with NORMAL orientation both overloads of ApproximateLeastSquares
\* hand the solver 4 * Width(A) when sketch_size is -1 and the caller's
\* value otherwise.
C6_SketchSize ==
    (ls.entry \in {"ApproximateLeastSquares", "ApproximateLeastSquaresDist"}
     /\ ls.orientation = "NORMAL")
    => /\ ls.solver = ls.entry
       /\ ls.arg = -1 => ls.handed = 4 * ls.W
       /\ ls.arg # -1 => ls.handed = ls.arg

\* The distributed overload called with the default on a 3 x 2 matrix: the
\* solver got 8.
C6_Witness ==
    /\ ls.entry = "ApproximateLeastSquaresDist" /\ ls.orientation = "NORMAL"
    /\ ls.arg = -1 /\ ls.H = 3 /\ ls.W = 2 /\ ls.handed = 8

(***************************************************************************)
(* Claims about apply.                                                     *)
(***************************************************************************)
\* C7: in an apply on a [ColDist, *] input with ColDist other than VR and
\* VC, of the dense transform as of the kernel transform and for both
\* orientations, a rank that has gone through the switch has thrown
\* unsupported_matrix_distribution and done nothing else: it has performed
\* no step, built no intermediate, and its output matrix is the caller's.
C7_UnsupportedLayoutDoesNothing ==
    \A r \in Ranks :
        (call.kind \in {"dense", "rft"} /\ call.coldist \notin {"VR", "VC"}
         /\ proc[r].pc # "enter")
        => /\ proc[r].pc = "threw"
           /\ proc[r].err = "unsupported_matrix_distribution"
           /\ proc[r].trace = <<>>
           /\ proc[r].cd = NoMat /\ proc[r].cc = NoMat
           /\ proc[r].out = call.out0

\* A column-wise kernel apply on an [MC, *] input that every rank has
\* left by the exception.
C7_Witness ==
    /\ call.kind = "rft" /\ call.coldist = "MC" /\ call.tag = "columnwise"
    /\ \A r \in Ranks : proc[r].pc = "threw"

\* The sketch's dimensions: A.Height() x S row-wise, S x A.Width()
\* column-wise.
HasSketchDims(m) ==
    /\ call.tag = "rowwise" => m.h = call.Ah /\ m.w = call.S
    /\ call.tag = "columnwise" => m.h = call.S /\ m.w = call.Aw

\* C8 as stated: after a successful apply of the distributed-input,
\* local-output dense transform the caller's output matrix has the sketch's
\* dimensions on every rank.
C8_DimsOnEveryRank ==
    \A r \in Ranks :
        (call.kind = "dense" /\ proc[r].pc = "done") => HasSketchDims(proc[r].out)

\* C8, amended: the output matrix has the sketch's dimensions on the process
\* of world rank 0 when it is the root of A's grid; on every other rank the
\* output matrix is the one the caller passed.
C8_DimsOnRoot ==
    \A r \in Ranks :
        (call.kind = "dense" /\ proc[r].pc = "done")
        => /\ (r = 0 /\ call.root = 0)
              => HasSketchDims(proc[r].out) /\ proc[r].out.val = "sketch"
           /\ r # 0 => proc[r].out = call.out0

\* A row-wise apply of a 3 x 2 input with S = 1 that both ranks completed.
C8_Witness ==
    /\ call.kind = "dense" /\ call.tag = "rowwise" /\ call.root = 0
    /\ call.Ah = 3 /\ call.S = 1
    /\ \A r \in Ranks : proc[r].pc = "done"
    /\ proc[0].out.h = 3 /\ proc[0].out.w = 1

(***************************************************************************)
(* The kernel (random-feature) transform, RFT_t.  RFT_data_t              *)
(* (RFT_data.hpp) is not among the sources: its constructor is modelled    *)
(* from the specification (4.2): a dense projection of N x S coefficients  *)
(* and S phase shifts, drawn once from the context.  A projected entry is  *)
(* kept as the global position its value belongs to, with the indices of   *)
(* the shifts the loop has applied to it, in order.                        *)
(***************************************************************************)
RftN == {2}
RftS == {1, 2}
RftFree == {1, 2}
\* The number of processes of the grid of a distributed call.
Grids == {1, 2}
\* Elemental checks indices in its debug build only.
Builds == {"debug", "release"}
\* What a store past the end of a block's buffer lands on.
Victims == {"heap", "shifts"}
Overwritten == -1

\* RFT_data_t(N, S, context): the underlying dense data, then the shifts.
RFTData(st, N, S) ==
    LET s1 == Generate(st, N * S, RawBits, FALSE)
        s2 == Generate(s1, S, UniformInt(7), FALSE)
    IN  [st |-> s2,
         d |-> [N |-> N, S |-> S, scale |-> 2, val_scale |-> 1,
                shifts |-> s2.last.samples, underlying |-> s1.last.samples,
                at |-> st.k.counter, used |-> s2.k.counter - st.k.counter]]

\* RFT_t(N, S, context) : base_data_t(N, S, context)
RFTConstruct(N, S) ==
    /\ rft = NoRFT
    /\ Store(1, RFTData(CtxState(1), N, S).st)
    /\ rft' = RFTData(CtxState(1), N, S).d
    /\ feat' = [feat EXCEPT !.built = rft']
    /\ UNCHANGED <<syncVars, wztVars, lsVars, applyVars>>

\* Rows of an h-row [VC/VR, *] matrix on rank r of a grid: row g is on rank
\* g mod grid, as the rank's local row g div grid.
RowsOn(h, r, grid) == Cardinality({g \in 0..(h - 1) : g % grid = r})

\* elem::Matrix keeps its entries column by column, ldim apart.
LDim(h) == IF h > 0 THEN h ELSE 1

\* underlying.apply(A, sketch_of_A, tag): the rank's h x w block of the
\* dense projection.
Projected(h, w, r, grid) ==
    [h |-> h, w |-> w, ldim |-> LDim(h),
     buf |-> [n \in 0..(h * w - 1) |->
                 [gi |-> r + (n % LDim(h)) * grid, gj |-> n \div LDim(h),
                  sh |-> <<>>]],
     visits |-> <<>>, outside |-> <<>>, err |-> "none", pc |-> "done"]

\* for (j = 0; j < nj; j++) for (i = 0; i < ni; i++): the (i, j) in order.
ForJForI(ni, nj) ==
    [n \in 1..(ni * nj) |-> [i |-> (n - 1) % ni, j |-> (n - 1) \div ni]]

ForIForJ(ni, nj) ==
    [n \in 1..(ni * nj) |-> [i |-> (n - 1) \div nj, j |-> (n - 1) % nj]]

\* One pass of the loop body: Get(i, j), scale * cos(val * val_scale +
\* _shifts[k]), Set(i, j, trans).  With (i, j) outside the block the debug
\* build's Get throws std::logic_error; the release build reads and
\* writes entry i + j * ldim of the buffer, or the memory after it.
Visit(b, i, j, k, build) ==
    LET idx == i + j * b.ldim
        seen == [b EXCEPT !.visits = Append(@, <<i, j>>)]
    IN  IF b.err # "none" THEN b
        ELSE IF i < b.h /\ j < b.w
             THEN [seen EXCEPT !.buf[idx].sh = Append(@, k)]
        ELSE IF build = "debug"
             THEN [seen EXCEPT !.err = "elemental_exception", !.pc = "threw"]
        ELSE IF idx < b.h * b.w
             THEN [seen EXCEPT !.buf[idx].sh = Append(@, k)]
        ELSE [seen EXCEPT !.outside = Append(@, idx)]

RECURSIVE Walk(_, _, _, _, _)
Walk(b, order, n, tag, build) ==
    IF n > Len(order) THEN b
    ELSE Walk(Visit(b, order[n].i, order[n].j,
                    IF tag = "columnwise" THEN order[n].i ELSE order[n].j,
                    build),
              order, n + 1, tag, build)

\* apply_impl(A, sketch_of_A, columnwise_tag): j < A.Width(), i < _S, _shifts[i]
ApplyImplColumnwise(Aw, S, build) ==
    Walk(Projected(S, Aw, 0, 1), ForJForI(S, Aw), 1, "columnwise", build)

ApplyImplRowwiseRowMajor(Ah, S, build) ==
    Walk(Projected(Ah, S, 0, 1), ForIForJ(Ah, S), 1, "rowwise", build)

\* apply_impl(A, sketch_of_A, rowwise_tag): j < _S, i < A.Height(), _shifts[j]
ApplyImplRowwise(Ah, S, build) ==
    Walk(Projected(Ah, S, 0, 1), ForJForI(Ah, S), 1, "rowwise", build)

\* apply_impl_vdist(A, sketch_of_A, columnwise_tag): Al is the rank's block
\* of the S x A.Width() output; j < Al.Width(), i < _S, _shifts[i]
ApplyImplVdistColumnwise(r, grid, Aw, S, build) ==
    LET Al == Projected(RowsOn(S, r, grid), Aw, r, grid)
    IN  Walk(Al, ForJForI(S, Al.w), 1, "columnwise", build)

\* apply_impl_vdist(A, sketch_of_A, rowwise_tag): Al is the rank's block of
\* the A.Height() x S output; j < _S, i < Al.Height(), _shifts[j]
ApplyImplVdistRowwise(r, grid, Ah, S, build) ==
    LET Al == Projected(RowsOn(Ah, r, grid), S, r, grid)
    IN  Walk(Al, ForJForI(Al.h, S), 1, "rowwise", build)

\* The order of a sequence of visited (i, j): by column, by row, or one
\* that does not tell (a single row or column) or fits neither.
ColumnMajor(visits) ==
    \A n \in 1..(Len(visits) - 1) :
        \/ visits[n][2] < visits[n + 1][2]
        \/ visits[n][2] = visits[n + 1][2] /\ visits[n][1] < visits[n + 1][1]

RowMajor(visits) ==
    \A n \in 1..(Len(visits) - 1) :
        \/ visits[n][1] < visits[n + 1][1]
        \/ visits[n][1] = visits[n + 1][1] /\ visits[n][2] < visits[n + 1][2]

MajorOf(visits) ==
    CASE ColumnMajor(visits) /\ ~RowMajor(visits) -> "column"
      [] RowMajor(visits) /\ ~ColumnMajor(visits) -> "row"
      [] OTHER -> "none"

Waiting == [h |-> 0, w |-> 0, ldim |-> 1, buf |-> <<>>, visits |-> <<>>,
            outside |-> <<>>, err |-> "none", pc |-> "enter"]

\* The ranks of the call's grid enter apply with common arguments; a local
\* matrix is on one process.
RFTStart(kind, tag, free, grid, build) ==
    /\ rft # NoRFT
    /\ kind = "local" => grid = 1
    /\ feat.kind # "none" => \A r \in DOMAIN feat.blocks : feat.blocks[r].pc # "enter"
    /\ feat' = [kind |-> kind, tag |-> tag, free |-> free, grid |-> grid,
                build |-> build, before |-> ctx[1].counter,
                built |-> feat.built, major |-> feat.major,
                strayed |-> feat.strayed,
                blocks |-> [r \in 0..(grid - 1) |-> Waiting]]
    /\ UNCHANGED <<rft, ctxVars, syncVars, wztVars, lsVars, applyVars>>

\* What the rank's apply leaves of its block.
RFTBlock(r) ==
    CASE feat.kind = "local" /\ feat.tag = "columnwise" ->
             ApplyImplColumnwise(feat.free, rft.S, feat.build)
      [] feat.kind = "local" /\ feat.tag = "rowwise" ->
             ApplyImplRowwise(feat.free, rft.S, feat.build)
      [] feat.kind = "dist" /\ feat.tag = "columnwise" ->
             ApplyImplVdistColumnwise(r, feat.grid, feat.free, rft.S, feat.build)
      [] OTHER ->
             ApplyImplVdistRowwise(r, feat.grid, feat.free, rft.S, feat.build)

\* RFT_t::apply on rank r: the projection, then the loop over the entries.
\* A store after the end of the buffer changes whatever is kept there.
RFTApply(r) ==
    /\ feat.kind # "none" /\ r \in DOMAIN feat.blocks
    /\ feat.blocks[r].pc = "enter"
    /\ LET b == RFTBlock(r)
           m == IF b.err = "none" THEN MajorOf(b.visits) ELSE "none"
       IN  /\ feat' = [feat EXCEPT !.blocks[r] = b,
                          !.major[feat.tag] = IF m # "none" THEN m ELSE @,
                          !.strayed = @ \/ b.outside # <<>>]
           /\ IF b.outside # <<>>
              THEN \E hit \in Victims :
                      rft' = IF hit = "shifts"
                             THEN [rft EXCEPT !.shifts[1] = Overwritten]
                             ELSE rft
              ELSE rft' = rft
    /\ UNCHANGED <<ctxVars, syncVars, wztVars, lsVars, applyVars>>

InitRFT ==
    /\ \E seed \in Seeds : ctx = [c \in CtxIds |-> ContextInit(seed, RankOf(c))]
    /\ log = [c \in CtxIds |-> <<>>]
    /\ last = [c \in CtxIds |-> NoAlloc]
    /\ IdleSync
    /\ IdleWZT
    /\ IdleLS
    /\ IdleApply
    /\ IdleRFT

NextRFT ==
    \/ \E N \in RftN, S \in RftS : RFTConstruct(N, S)
    \/ \E kind \in {"local", "dist"}, tag \in Tags, free \in RftFree,
          grid \in Grids, build \in Builds :
          RFTStart(kind, tag, free, grid, build)
    \/ \E r \in Ranks : RFTApply(r)

\* A kernel transform is built and applied, call after call.
SpecRFT == InitRFT /\ [][NextRFT]_vars

(***************************************************************************)
(* Claims about the kernel transform.                                      *)
(***************************************************************************)
\* The blocks of the call that their rank's apply has left.
Left == {r \in DOMAIN feat.blocks : feat.blocks[r].pc # "enter"}

\* The shift that belongs to an entry: that of its global row column-wise,
\* of its global column row-wise.
ShiftOf(e) == IF feat.tag = "columnwise" THEN e.gi ELSE e.gj

\* Every visit was inside the block, and every entry went once through
\* the cosine with the shift of its global index.
BlockAsLocal(b) ==
    /\ b.err = "none" /\ b.outside = <<>>
    /\ \A n \in 1..Len(b.visits) : b.visits[n][1] < b.h /\ b.visits[n][2] < b.w
    /\ \A n \in DOMAIN b.buf : b.buf[n].sh = <<ShiftOf(b.buf[n])>>

\* C11: after apply, in every supported layout, every entry of the output
\* is scale * cos(v * val_scale + shift[k]) with k its global row
\* (column-wise) or global column (row-wise), transformed once, with every
\* index in range: the distributed specialization gives what the local
\* one gives.
C11_SameResultEveryLayout ==
    \A r \in Left : BlockAsLocal(feat.blocks[r])

\* The layouts in which apply does give the local result: all but the
\* column-wise distributed one on more than one process.
C11_HoldsElsewhere ==
    (feat.kind = "local" \/ feat.tag = "rowwise" \/ feat.grid = 1)
    => \A r \in Left : BlockAsLocal(feat.blocks[r])

(***************************************************************************)
(* More claims about the Woodruff-Zhang descriptor.                        *)
(***************************************************************************)
\* The descriptors that exist.
Exists(d) == data[d].ctor \in {"params", "tree"}

\* The offsets a descriptor's construction took from its context.
Offsets(d) == data[d].at .. (data[d].at + data[d].used - 1)

\* The context's allocations from a descriptor's first offset on begin
\* with the N indices, the N magnitudes and the N signs, in this order.
ThreeArrays(d) ==
    LET w == data[d]
    IN  \E n \in 1..(Len(log[w.on]) - 2) :
           /\ log[w.on][n] = [base |-> w.at, size |-> w.N]
           /\ log[w.on][n + 1] = [base |-> w.at + w.N, size |-> w.N]
           /\ log[w.on][n + 2] = [base |-> w.at + 2 * w.N, size |-> w.N]

\* C12: a constructed Woodruff-Zhang descriptor has taken exactly 3N
\* samples: the N signs lie after the base class's N indices and N
\* magnitudes, every row_value[i] is sign_i * (1/e_i)^(1/p) with e_i the
\* i-th magnitude and sign_i the i-th sign, rewritten once; two descriptors
\* of one context have disjoint offsets.
C12_ExactConsumption ==
    /\ \A d \in Slots :
          Exists(d) =>
             LET w == data[d]
             IN  /\ w.used = 3 * w.N
                 /\ ThreeArrays(d)
                 /\ \A i \in 1..w.N :
                       /\ w.row_idx[i] =
                             Sample(w.seed, w.at + i - 1, UniformInt(w.S - 1))
                       /\ w.row_value[i] =
                             WZValue(Sample(w.seed, w.at + 2 * w.N + i - 1, Rademacher),
                                     Sample(w.seed, w.at + w.N + i - 1, Exponential),
                                     w.p)
    /\ \A d1, d2 \in Slots :
          (d1 # d2 /\ Exists(d1) /\ Exists(d2) /\ data[d1].on = data[d2].on)
          => Offsets(d1) \cap Offsets(d2) = {}

\* Two descriptors of two coordinates built one after the other from
\* context 1.
C12_Witness ==
    /\ \A d \in Slots : Exists(d) /\ data[d].on = 1 /\ data[d].N = 2
    /\ data[1].at = 0 /\ data[2].at = 6

(***************************************************************************)
(* Parameter trees that come from the caller: the tree constructor takes   *)
(* any ptree, such as one read from a file.                                *)
(***************************************************************************)
\* A tree with the fields of a Woodruff-Zhang descriptor, as the caller
\* filled it.
LoadTree(N, S, p) ==
    /\ sk = EmptyTree
    /\ sk' = [src |-> 0,
              fields |-> Put(Put(Put(Put({}, "sketch.type", "WZT"),
                                     "sketch.N", IntToText(N)),
                                 "sketch.S", IntToText(S)),
                             "sketch.p", DoubleToText(p))]
    /\ UNCHANGED <<ctxVars, data, wlast, syncVars, lsVars, applyVars, rftVars>>

NextTree ==
    \/ \E N \in Ns, S \in Ss, p \in PVals : LoadTree(N, S, p)
    \/ \E d \in Slots, c \in CtxIds, N \in Ns, S \in Ss, p \in PVals, failAt \in 0..3 :
          WZTConstruct(d, c, N, S, p, failAt)
    \/ \E d \in Slots, c \in CtxIds, failAt \in 0..3 : WZTFromTree(d, c, failAt)
    \/ \E d \in Slots : Serialize(d)

\* Descriptors built from parameters, and from trees the caller supplies
\* or a descriptor wrote.
SpecTree == InitWZT /\ [][NextTree]_vars

\* C13: every Woodruff-Zhang descriptor that exists has its p in [1, 2]
\* (2 to 4 halves), whichever constructor built it.
C13_PInRange ==
    \A d \in Slots : Exists(d) => (2 <= data[d].p /\ data[d].p <= 4)

\* What the code does keep: a descriptor built from (N, S, p, context) has
\* its p in [1, 2].
C13_PInRangeFromParams ==
    \A d \in Slots : data[d].ctor = "params" => (2 <= data[d].p /\ data[d].p <= 4)

(***************************************************************************)
(* Claims about what apply leaves alone, and about its order.              *)
(***************************************************************************)
\* Some rank's apply of the current call has run.
Applied == feat.kind # "none" /\ Left # {}

C14_InsideTheBuffer ==
    Applied => /\ ctx[1].counter = feat.before
               /\ rft # feat.built => feat.strayed

\* C15 as stated: the loop goes through the buffer by rows in one
\* orientation and by columns in the other: once both orientations have
\* walked a block of several rows and columns, their orders differ.
C15_OrderByOrientation ==
    (feat.major["rowwise"] # "none" /\ feat.major["columnwise"] # "none")
    => feat.major["rowwise"] # feat.major["columnwise"]

\* C15, amended: in both orientations the loop goes through the buffer
\* column by column, the column index j in the outer loop and the row
\* index i in the inner one.
C15_ColumnMajorBoth ==
    /\ \A t \in Tags : feat.major[t] \in {"none", "column"}
    /\ \A r \in Left : ColumnMajor(feat.blocks[r].visits)

\* A row-wise local apply on a block of two rows and two columns, after a
\* column-wise apply that also told its order.
C15_Witness ==
    /\ feat.kind = "local" /\ feat.tag = "rowwise" /\ Left = {0}
    /\ feat.blocks[0].visits = <<<<0, 0>>, <<1, 0>>, <<0, 1>>, <<1, 1>>>>
    /\ feat.major["rowwise"] = "column" /\ feat.major["columnwise"] = "column"

(***************************************************************************)
(* Claims about the collective steps of the dense apply.                   *)
(***************************************************************************)
\* The steps of apply_impl_vdist that every rank of the grid takes part in.
Collectives == <<"Zeros_CD_STAR", "Zeros_CIRC_CIRC", "apply_CD_STAR",
                 "CIRC_CIRC_from_CD_STAR">>

IsPrefix(s, t) == Len(s) <= Len(t) /\ SubSeq(t, 1, Len(s)) = s

\* Each rank has gone through a prefix of the one sequence of steps, and a
\* rank that has reached or passed the copy has gone through all of it.
SameCollectives ==
    call.kind = "dense"
    => \A r \in Ranks :
          /\ IsPrefix(proc[r].trace, Collectives)
          /\ proc[r].pc \in {"copy", "done"} => proc[r].trace = Collectives

\* All ranks have called the dense apply on a supported layout.
AllEntered ==
    /\ call.kind = "dense" /\ SupportedDense(call.coldist)
    /\ \A r \in Ranks : proc[r].pc = "enter"

\* The call is over: completed on all ranks, or left by an exception of
\* Elemental or MPI on some rank.
CallOver ==
    \/ \A r \in Ranks : proc[r].pc = "done"
    \/ \E r \in Ranks : proc[r].pc = "threw"

FullSketch == [h |-> SketchH(call), w |-> SketchW(call), val |-> "sketch"]

====
